---- MODULE Spec2Model ----
(***************************************************************************)
(* Run lifecycle and stage scheduling of the MARK-2 photogrammetry         *)
(* pipeline: the two orchestrators (runner.run_pipeline_from_args and      *)
(* orches.orchestrate_pipeline), the JSON checkpoint file of orches, and   *)
(* the run directory API (runs.RunManager, runs.RunContext).               *)
(*                                                                         *)
(* Stage functions are the environment: an invoked stage either returns    *)
(* or raises.  Files are modelled by their parsed content.                 *)
(***************************************************************************)
EXTENDS Integers, Sequences, FiniteSets, TLC

\* ------------------------------------------------------------------ bounds
\* Number of orchestrator invocations (process starts) a behaviour holds.
MaxInvocations == 2

\* Number of distinct run ids (run_<timestamp>_<uuid6>) the runs root can hold.
NumRunIds == 2

\* Largest reading of the clock (time.time(), datetime.utcnow()), in ticks.
MaxClock == 2

\* ------------------------------------------------------- program constants
\* runner.py PIPELINE: the stage names in declaration order.
PIPELINE ==
  << "init", "input", "image_filter", "preprocessing", "database", "matcher",
     "sparse", "sparse_eval", "dense", "dense_eval", "mesh", "mesh_post",
     "texture", "mesh_eval", "aggregate", "visualization" >>

\* orches.py pipeline_steps: the step names in declaration order.
pipeline_steps ==
  << "input", "coverage", "preprocessing", "sparse", "dense", "mesh",
     "evaluation" >>

\* Python's None, and a key that is not in a dict.
None == "None"
Absent == "absent"

\* RunManager.active_run = None: no RunContext.
NoRun == 0

\* A time field that is not set: _start_time = None, a manifest key not written.
NoTime == -1

\* Run ids; a RunContext is identified by its root, runs_root / run_id.
RunIds == 1..NumRunIds

\* The processes using the run API.  Each owns one RunManager and passes its own
\* input_path; Managers is the single instance the manager claims are about.
Procs == {1, 2}
Managers == {1}

\* Stage names and statuses handed to RunContext.mark_stage.
MarkNames == {"init", "input"}
MarkStatuses == {"done", "failed"}

EmptyMarks == [ n \in MarkNames |-> Absent ]

\* What a step function of orches hands back when it returns: None, or an output
\* (a path, a metrics dict).  run_coverage_filter, run_sparse_reconstruction and
\* run_evaluation return their output; the dense, mesh and preprocessing stage
\* functions of the repository have no return value; run_input_handler is not
\* fixed by the source.
StepResults(name) ==
  IF name \in {"coverage", "sparse", "evaluation"} THEN {"output"}
  ELSE IF name = "input" THEN {None, "output"}
  ELSE {None}

\* All names either orchestrator declares.
StageNames == { PIPELINE[i] : i \in 1..Len(PIPELINE) }
                 \cup { pipeline_steps[i] : i \in 1..Len(pipeline_steps) }

StepNames == { pipeline_steps[i] : i \in 1..Len(pipeline_steps) }

\* A dict keyed by step name, as a total function: Absent marks a missing key.
EmptyDict == [ n \in StepNames |-> Absent ]

Keys(d) == { n \in StepNames : d[n] # Absent }

\* The declared list of a program, and the position of a name in it.
Stages(p) == IF p = "runner" THEN PIPELINE ELSE pipeline_steps

Range(seq) == { seq[i] : i \in 1..Len(seq) }

IndexOf(list, name) == CHOOSE i \in 1..Len(list) : list[i] = name

VARIABLES
  \* ---- the process running an orchestrator
  prog,             \* "none" | "runner" | "orches": the program of this invocation
  pc,               \* "idle" | "loop" | "stage" | "sparse_saved" | "done"
  idx,              \* position of the for loop in the declared list
  force,            \* runner: the force argument; orches: user chose a fresh run
  checkpoint,       \* orches: the local dict `checkpoint`
  outcome,          \* how the invocation ended: "none" | "returned" | "raised" | "exit"
  exit_code,        \* the process exit status, -1 while running
  \* ---- the filesystem
  CHECKPOINT_FILE,  \* logs/pipeline_checkpoint.json: [exists, data]
  \* ---- history of the invocations (what was observed, not program state)
  invoked,          \* names of the stage functions invoked, in order
  skipped,          \* names skipped by the checkpoint rule
  failed,           \* name of the stage that raised, or None
  clean_start,      \* the invocation began with no checkpoint file on disk
  returned,         \* step functions that returned since the file was last absent
  prev,             \* the record of the previous invocation
  nInv,             \* invocations started so far
  missing,          \* the external tools that are not installed during the invocation
  markers,          \* runner: the monitor markers printed so far, in order
  \* ---- the run API: per process
  active_run,       \* RunManager.active_run: the root of its RunContext, or NoRun
  handle,           \* the RunContext start_run last returned to the caller
  at,               \* position inside start_run / RunContext.initialize, or "idle"
  last_call,        \* the last call of the process and how it ended: [op, out]
  \* ---- the run API: the runs root on disk, per run id
  dirs,             \* "none" | "root" (root made) | "logs" (root and root/logs made)
  manifest,         \* run.json: [exists, run_id, status, started_at, project_root,
                    \*            input_path, finished_at, duration_sec]
  checkpoints,      \* checkpoints.json: [exists, data]
  \* ---- history of the run API
  created,          \* per process: the roots its initialize created
  last_mark,        \* per run id and stage: the status of the most recent mark
  \* ---- the run API: time
  now,              \* the reading of the system clock
  start_time,       \* per process: _start_time of the RunContext its manager holds
  finalizing,       \* per process: finalize's locals [success, finished_at]
  \* ---- the checkpoint files, byte level
  stale,            \* per run id: bytes of an older document left in checkpoints.json
                    \* after the end of the document written last
  marking,          \* per process: mark_stage's local `data` after data[stage] = status
  truncated,        \* logs/pipeline_checkpoint.json was opened "w" and holds no byte yet
  saving,           \* per process: save_checkpoint's local `checkpoint`
  ckpt_file,        \* checkpoint.py's view of its CHECKPOINT_FILE: [exists, empty, data]
  ckpt_call,        \* per process: the checkpoint.py call in progress [op, step, outputs]
  completed,        \* history: the steps an update_checkpoint call has recorded
  \* ---- the tool runner
  files,            \* the filesystem: the paths that exist
  tool_runner,      \* the ToolRunner last constructed: [state, exec_cfg, tools_cfg]
  fs_changed,       \* a path appeared or disappeared since that construction
  tool_call,        \* the last call of run() on it and how it ended
  \* ---- the stage functions
  project,          \* the artifacts under the project root: "missing" | "empty" | "ok"
  stage_call        \* the last call of a stage function and what it did

procVars == << prog, pc, idx, force, checkpoint, outcome, exit_code >>
histVars == << invoked, skipped, failed, clean_start, returned, prev, nInv, missing,
              markers >>
orchVars == << procVars, CHECKPOINT_FILE, histVars >>

runProcVars == << active_run, handle, at, last_call >>
diskVars == << dirs, manifest, checkpoints >>
timeVars == << now, start_time, finalizing >>
runVars == << runProcVars, diskVars, created, last_mark, timeVars >>

fileVars == << stale, marking, truncated, saving, ckpt_file, ckpt_call, completed >>

toolVars == << files, tool_runner, fs_changed, tool_call >>

stageVars == << project, stage_call >>

\* What the orchestrator actions, and what the run API actions, leave alone.
notOrchVars == << runVars, fileVars, toolVars, stageVars >>
notRunVars == << orchVars, fileVars, toolVars, stageVars >>

vars == << orchVars, runVars, fileVars, toolVars, stageVars >>

NoInvocation ==
  [ prog |-> "none", force |-> FALSE, invoked |-> << >>, skipped |-> {},
    failed |-> None, clean_start |-> FALSE, outcome |-> "none" ]

NoFile == [ exists |-> FALSE, data |-> EmptyDict ]

InitOrch ==
  /\ prog = "none"
  /\ pc = "idle"
  /\ idx = 1
  /\ force = FALSE
  /\ checkpoint = EmptyDict
  /\ outcome = "none"
  /\ exit_code = -1
  /\ CHECKPOINT_FILE = NoFile
  /\ invoked = << >>
  /\ skipped = {}
  /\ failed = None
  /\ clean_start = FALSE
  /\ returned = {}
  /\ prev = NoInvocation
  /\ nInv = 0
  /\ missing = {}
  /\ markers = << >>

NoManifest ==
  [ exists |-> FALSE, run_id |-> NoRun, status |-> Absent, started_at |-> NoTime,
    project_root |-> 0, input_path |-> 0, finished_at |-> NoTime,
    duration_sec |-> NoTime ]

NotFinalizing == [ success |-> FALSE, finished_at |-> NoTime ]

NoCheckpoints == [ exists |-> FALSE, data |-> EmptyMarks ]

NoCall == [ op |-> "none", out |-> "none" ]

InitRun ==
  /\ active_run = [ p \in Procs |-> NoRun ]
  /\ handle = [ p \in Procs |-> NoRun ]
  /\ at = [ p \in Procs |-> "idle" ]
  /\ last_call = [ p \in Procs |-> NoCall ]
  /\ dirs = [ r \in RunIds |-> "none" ]
  /\ manifest = [ r \in RunIds |-> NoManifest ]
  /\ checkpoints = [ r \in RunIds |-> NoCheckpoints ]
  /\ created = [ p \in Procs |-> {} ]
  /\ last_mark = [ r \in RunIds |-> EmptyMarks ]
  /\ now = 0
  /\ start_time = [ p \in Procs |-> NoTime ]
  /\ finalizing = [ p \in Procs |-> NotFinalizing ]

\* checkpoint.py PIPELINE_STEPS.
PIPELINE_STEPS ==
  << "input_handling", "coverage_filter", "preprocessing", "sparse_reconstruction",
     "dense_reconstruction", "mesh_generation", "evaluation" >>

\* initialize_checkpoint's document: {"last_completed_step": None, "outputs": {}};
\* outputs is the set of steps that have an entry.
InitialCkpt == [ last_completed_step |-> None, outputs |-> {} ]

NoCkptFile == [ exists |-> FALSE, empty |-> FALSE, data |-> InitialCkpt ]

NoCkptCall == [ op |-> "none", step |-> None, outputs |-> None ]

InitFiles ==
  /\ stale = [ r \in RunIds |-> 0 ]
  /\ marking = [ p \in Procs |-> EmptyMarks ]
  /\ truncated = FALSE
  /\ saving = [ p \in Procs |-> EmptyDict ]
  /\ ckpt_file = NoCkptFile
  /\ ckpt_call = [ p \in Procs |-> NoCkptCall ]
  /\ completed = {}

\* ------------------------------------------------ tool_runner.py: the inputs
\* A path is the sequence of its components; an absolute path starts at "/".
\* The directories of the search path, and the executables that may be installed.
SearchPath == { << "/", "usr", "bin" >> }

Installable ==
  { << "/", "usr", "bin", "colmap" >>, << "/", "opt", "colmap" >>,
    << "/", "usr", "bin", "InterfaceCOLMAP" >>,
    << "/", "usr", "bin", "DensifyPointCloud" >> }

\* An entry of config["tools"]: a dict of executables, or one executable.
DictEntry(items) == [ type |-> "dict", items |-> items, value |-> << >> ]

StrEntry(exe) == [ type |-> "str", items |-> << >>, value |-> exe ]

\* The openmvs group of SCHEMA_DEFAULTS, two of its four tools.
OpenMVSGroup ==
  DictEntry(("interface" :> << "InterfaceCOLMAP" >>)
            @@ ("densify" :> << "DensifyPointCloud" >>))

\* The shapes of the colmap entry that _resolve_executable reads: the dict of
\* SCHEMA_DEFAULTS with a bare name or with an absolute path, or the bare string.
ColmapEntries ==
  { DictEntry("executable" :> << "colmap" >>),
    DictEntry("executable" :> << "/", "opt", "colmap" >>),
    StrEntry(<< "colmap" >>) }

ToolsConfigs ==
  { ("colmap" :> c) @@ ("openmvs" :> OpenMVSGroup) : c \in ColmapEntries }

ExecConfigs == [ use_gpu : BOOLEAN, dry_run : BOOLEAN ]

\* The tool argument of run(): the names the stages pass, one in upper case,
\* the name of the group, and a name no configuration holds.
ToolArgs == { "colmap", "COLMAP", "interface", "openmvs", "meshroom" }

ArgLists == { << >>, << "image_undistorter", "--output_type", "COLMAP" >> }

\* os.environ of the caller; a variable that is not set holds Unset.
Unset == "<unset>"

Environs ==
  { ("CUDA_VISIBLE_DEVICES" :> c) @@ ("HOME" :> "/root") : c \in { Unset, "", "0" } }

NoEnv == ("CUDA_VISIBLE_DEVICES" :> Unset) @@ ("HOME" :> Unset)

ReturnCodes == { 0, 1 }

NoToolRunner ==
  [ state |-> "none", exec_cfg |-> [ use_gpu |-> TRUE, dry_run |-> FALSE ],
    tools_cfg |-> ("colmap" :> StrEntry(<< "colmap" >>)) @@ ("openmvs" :> OpenMVSGroup) ]

\* What the child wrote to stdout and stderr.
Outputs == { "", "log" }

\* run() returned no CompletedProcess.
NoProc == [ returncode |-> -1, stdout |-> "" ]

NoToolCall ==
  [ tool |-> None, check |-> TRUE, out |-> "none", spawned |-> FALSE,
    cmd |-> << >>, environ |-> NoEnv, env |-> NoEnv, proc |-> NoProc,
    message |-> << >> ]

InitTools ==
  /\ files = Installable
  /\ tool_runner = NoToolRunner
  /\ fs_changed = FALSE
  /\ tool_call = NoToolCall

\* ------------------------------------------------ the stage functions: inputs
\* The artifacts of the stages from preprocessing to dense: the two image
\* directories, database.db, the match tables in it, the sparse model and
\* the fused cloud.
Artifacts ==
  { "images_filtered", "images_processed", "database", "matches", "sparse", "dense" }

\* The directories can exist without a file in them.
Directories == { "images_filtered", "images_processed" }

NoProject == [ a \in Artifacts |-> "missing" ]

NoStageCall ==
  [ stage |-> None, force |-> FALSE, had_output |-> FALSE, out |-> "none",
    precondition |-> FALSE, spawned |-> FALSE, removed |-> FALSE,
    written |-> FALSE ]

InitStages ==
  /\ project = NoProject
  /\ stage_call = NoStageCall

Init == InitOrch /\ InitRun /\ InitFiles /\ InitTools /\ InitStages

\* ------------------------------------------------- orches.py: checkpoint file
\* load_checkpoint(): the parsed file, {} when there is none.
load_checkpoint == IF CHECKPOINT_FILE.exists THEN CHECKPOINT_FILE.data ELSE EmptyDict

\* Variant: the file is rewritten from an empty dict instead of the loaded one.
save_checkpoint_from_empty(step_name, output) ==
  [ exists |-> TRUE, data |-> [ EmptyDict EXCEPT ![step_name] = output ] ]

\* save_checkpoint(step_name, output): read the file, set one key, write it all back.
save_checkpoint(step_name, output) ==
  [ exists |-> TRUE, data |-> [ load_checkpoint EXCEPT ![step_name] = output ] ]

\* outputs[step_name] = result if result is not None else "done"
StepOutput(result) == IF result # None THEN result ELSE "done"

\* clean_pipeline_folders(): the project folders are emptied and the checkpoint
\* file is removed; a failing os.remove is only logged and leaves the file.
clean_pipeline_folders(removed) == IF removed THEN NoFile ELSE CHECKPOINT_FILE

\* ------------------------------------------------- starting an invocation
\* What may be absent from the machine: nothing, the COLMAP executable that
\* check_dependencies looks for, or ffmpeg, which only the input stage looks for.
MissingTools == { {}, { "colmap" }, { "ffmpeg" } }

\* check_dependencies(): COLMAP_EXE and GLOMAP_EXE exist (else sys.exit(1)).
check_dependencies(absent) == absent \cap { "colmap", "glomap" } = {}

StartHistory(p, f, file, absent) ==
  /\ prog' = p
  /\ missing' = absent
  /\ force' = f
  /\ nInv' = nInv + 1
  /\ invoked' = << >>
  /\ skipped' = {}
  /\ failed' = None
  /\ clean_start' = ~file.exists
  /\ returned' = IF file.exists THEN returned ELSE {}
  /\ UNCHANGED prev

\* The monitor markers, as records: the bracketed tag, the stage index and
\* total where one is printed (0 otherwise), and the stage name.  The paths,
\* the elapsed time and the error text are left out.
Marker(kind, i, total, name) ==
  [ kind |-> kind, idx |-> i, total |-> total, name |-> name ]

monitor_pipeline_start == Marker("PIPELINE_START", 0, 0, None)

monitor_total_stages(total) == Marker("TOTAL_STAGES", 0, total, None)

monitor_start_stage(i, name, total_stages) == Marker("STAGE_START", i, total_stages, name)

\* Variant: the end marker counts from zero.
monitor_end_stage_from_zero(i, name, total_stages) ==
  Marker("STAGE_DONE", i - 1, total_stages, name)

monitor_end_stage(i, name, total_stages) == Marker("STAGE_DONE", i, total_stages, name)

monitor_fail_stage(name) == Marker("STAGE_FAIL", 0, 0, name)

monitor_pipeline_complete == Marker("PIPELINE_COMPLETE", 0, 0, None)

\* Steps 1-5 of run_pipeline_from_args.  Steps 1-4 print a STAGE_FAIL marker
\* with the step's name before sys.exit(1); the logger setup of step 5 is not
\* inside a try and prints none.
SetupSteps ==
  { "config_creation", "project_setup", "module_import", "path_creation", "logger" }

SetupFailure(step) ==
  IF step = "logger" THEN << >> ELSE << monitor_fail_stage(step) >>

\* runner.main -> run_pipeline_from_args: PIPELINE_START and TOTAL_STAGES are
\* printed, then steps 1-5 (config, project structure, imports, paths, logger)
\* end the process with exit status 1 when one fails.
RunnerStart ==
  /\ prog = "none" /\ pc = "idle" /\ nInv < MaxInvocations
  /\ \E f \in BOOLEAN, setup_ok \in BOOLEAN, absent \in MissingTools :
       /\ StartHistory("runner", f, CHECKPOINT_FILE, absent)
       /\ IF setup_ok
            THEN /\ pc' = "loop" /\ outcome' = "none" /\ exit_code' = -1
                 /\ markers' = << monitor_pipeline_start,
                                  monitor_total_stages(Len(PIPELINE)) >>
            ELSE /\ pc' = "done" /\ outcome' = "exit" /\ exit_code' = 1
                 /\ \E step \in SetupSteps :
                      markers' = << monitor_pipeline_start,
                                    monitor_total_stages(Len(PIPELINE)) >>
                                  \o SetupFailure(step)
  /\ idx' = 1
  /\ UNCHANGED << checkpoint, CHECKPOINT_FILE >>
  /\ UNCHANGED notOrchVars

\* orchestrate_pipeline up to the loop: check_dependencies (sys.exit(1) when an
\* executable is missing), then the resume prompt when a checkpoint file exists.
OrchesStart ==
  /\ prog = "none" /\ pc = "idle" /\ nInv < MaxInvocations
  /\ \E absent \in MissingTools, choice \in {"yes", "no"}, removed \in BOOLEAN :
       LET deps_ok == check_dependencies(absent)
           fresh == CHECKPOINT_FILE.exists /\ choice # "yes"
           file  == IF deps_ok /\ fresh THEN clean_pipeline_folders(removed)
                    ELSE CHECKPOINT_FILE
       IN  /\ (~CHECKPOINT_FILE.exists => choice = "no" /\ removed)
           /\ (~fresh => removed)
           /\ (~deps_ok => choice = "no" /\ removed)
           /\ StartHistory("orches", fresh, file, absent)
           /\ markers' = << >>
           /\ CHECKPOINT_FILE' = file
           /\ IF deps_ok
                THEN /\ pc' = "loop" /\ outcome' = "none" /\ exit_code' = -1
                     /\ checkpoint' = IF CHECKPOINT_FILE.exists /\ ~fresh
                                        THEN load_checkpoint ELSE EmptyDict
                ELSE /\ pc' = "done" /\ outcome' = "exit" /\ exit_code' = 1
                     /\ checkpoint' = EmptyDict
  /\ idx' = 1
  /\ UNCHANGED notOrchVars

\* Variant: the loop steps over a declared stage.
NextIndex_steps_over(i) == i + 2

\* The for loop moves to the next declared stage.
NextIndex(i) == i + 1

\* ------------------------------------------------- runner.py: the stage loop
RunnerInvoke ==
  /\ prog = "runner" /\ pc = "loop" /\ idx <= Len(PIPELINE)
  /\ pc' = "stage"
  /\ invoked' = Append(invoked, PIPELINE[idx])
  /\ markers' = Append(markers, monitor_start_stage(idx, PIPELINE[idx], Len(PIPELINE)))
  /\ UNCHANGED << prog, idx, force, checkpoint, outcome, exit_code, CHECKPOINT_FILE,
                  skipped, failed, clean_start, returned, prev, nInv, missing >>
  /\ UNCHANGED notOrchVars

\* func(project_root, force) returned.
RunnerStageDone ==
  /\ prog = "runner" /\ pc = "stage"
  /\ pc' = "loop"
  /\ idx' = NextIndex(idx)
  /\ markers' = Append(markers, monitor_end_stage(idx, PIPELINE[idx], Len(PIPELINE)))
  /\ UNCHANGED << prog, force, checkpoint, outcome, exit_code, CHECKPOINT_FILE,
                  invoked, skipped, failed, clean_start, returned, prev, nInv, missing >>
  /\ UNCHANGED notOrchVars

\* func raised: STAGE_FAIL, then RuntimeError("Pipeline aborted at stage"),
\* which main() turns into sys.exit(1).
RunnerStageFail ==
  /\ prog = "runner" /\ pc = "stage"
  /\ failed' = PIPELINE[idx]
  /\ markers' = Append(markers, monitor_fail_stage(PIPELINE[idx]))
  /\ pc' = "done"
  /\ outcome' = "raised"
  /\ exit_code' = 1
  /\ UNCHANGED << prog, idx, force, checkpoint, CHECKPOINT_FILE,
                  invoked, skipped, clean_start, returned, prev, nInv, missing >>
  /\ UNCHANGED notOrchVars

\* The list is exhausted: PIPELINE_COMPLETE, normal return.
RunnerComplete ==
  /\ prog = "runner" /\ pc = "loop" /\ idx > Len(PIPELINE)
  /\ markers' = Append(markers, monitor_pipeline_complete)
  /\ pc' = "done"
  /\ outcome' = "returned"
  /\ exit_code' = 0
  /\ UNCHANGED << prog, idx, force, checkpoint, CHECKPOINT_FILE,
                  invoked, skipped, failed, clean_start, returned, prev, nInv, missing >>
  /\ UNCHANGED notOrchVars

\* ------------------------------------------------- orches.py: the step loop
\* if step_name in checkpoint: [SKIP]; continue
OrchesSkip ==
  /\ prog = "orches" /\ pc = "loop" /\ idx <= Len(pipeline_steps)
  /\ checkpoint[pipeline_steps[idx]] # Absent
  /\ skipped' = skipped \cup { pipeline_steps[idx] }
  /\ idx' = NextIndex(idx)
  /\ UNCHANGED << prog, pc, force, checkpoint, outcome, exit_code, CHECKPOINT_FILE,
                  invoked, failed, clean_start, returned, prev, nInv, missing, markers >>
  /\ UNCHANGED notOrchVars

\* [START] step_name; step_func() is called.
OrchesInvoke ==
  /\ prog = "orches" /\ pc = "loop" /\ idx <= Len(pipeline_steps)
  /\ checkpoint[pipeline_steps[idx]] = Absent
  /\ pc' = "stage"
  /\ invoked' = Append(invoked, pipeline_steps[idx])
  /\ UNCHANGED << prog, idx, force, checkpoint, outcome, exit_code, CHECKPOINT_FILE,
                  skipped, failed, clean_start, returned, prev, nInv, missing, markers >>
  /\ UNCHANGED notOrchVars

\* reconstruction_core.run_sparse_reconstruction, the step function of "sparse":
\* when the file has no "sparse" key it runs the pipeline and then writes the key
\* itself, before it returns.
SparseSelfSave ==
  /\ prog = "orches" /\ pc = "stage" /\ pipeline_steps[idx] = "sparse"
  /\ load_checkpoint["sparse"] = Absent
  /\ CHECKPOINT_FILE' = save_checkpoint("sparse", "output")
  /\ pc' = "sparse_saved"
  /\ UNCHANGED << prog, idx, force, checkpoint, outcome, exit_code, histVars >>
  /\ UNCHANGED notOrchVars

\* step_func() returned: the orchestrator records the output in the file.
\* The "sparse" step returns either after its own save or, when the file already
\* has the key, at once with the recorded value.
OrchesStageDone ==
  /\ prog = "orches"
  /\ LET name == pipeline_steps[idx] IN
     /\ \/ pc = "stage" /\ name # "sparse"
        \/ pc = "stage" /\ name = "sparse" /\ load_checkpoint["sparse"] # Absent
        \/ pc = "sparse_saved"
     /\ \E result \in StepResults(name) :
          CHECKPOINT_FILE' = save_checkpoint(name, StepOutput(result))
     /\ returned' = returned \cup { name }
  /\ pc' = "loop"
  /\ idx' = NextIndex(idx)
  /\ UNCHANGED << prog, force, checkpoint, outcome, exit_code,
                  invoked, skipped, failed, clean_start, prev, nInv, missing, markers >>
  /\ UNCHANGED notOrchVars

\* Variant: the except block logs and goes on with the next step.
OrchesStageFail_continues ==
  /\ prog = "orches" /\ pc = "stage"
  /\ pipeline_steps[idx] = "sparse" => load_checkpoint["sparse"] = Absent
  /\ failed' = pipeline_steps[idx]
  /\ pc' = "loop"
  /\ idx' = NextIndex(idx)
  /\ UNCHANGED << prog, force, checkpoint, outcome, exit_code, CHECKPOINT_FILE,
                  invoked, skipped, clean_start, returned, prev, nInv, missing, markers >>
  /\ UNCHANGED notOrchVars

\* Variant: the step is written to the checkpoint on the failure path too.
OrchesStageFail_records ==
  /\ prog = "orches" /\ pc = "stage"
  /\ pipeline_steps[idx] = "sparse" => load_checkpoint["sparse"] = Absent
  /\ failed' = pipeline_steps[idx]
  /\ CHECKPOINT_FILE' = save_checkpoint(pipeline_steps[idx], "done")
  /\ pc' = "done"
  /\ outcome' = "returned"
  /\ exit_code' = 0
  /\ UNCHANGED << prog, idx, force, checkpoint,
                  invoked, skipped, clean_start, returned, prev, nInv, missing, markers >>
  /\ UNCHANGED notOrchVars

\* step_func() raised: [FAIL] is logged and orchestrate_pipeline returns.
OrchesStageFail ==
  /\ prog = "orches" /\ pc = "stage"
  /\ pipeline_steps[idx] = "sparse" => load_checkpoint["sparse"] = Absent
  /\ failed' = pipeline_steps[idx]
  /\ pc' = "done"
  /\ outcome' = "returned"
  /\ exit_code' = 0
  /\ UNCHANGED << prog, idx, force, checkpoint, CHECKPOINT_FILE,
                  invoked, skipped, clean_start, returned, prev, nInv, missing, markers >>
  /\ UNCHANGED notOrchVars

\* The list is exhausted: the summary is logged, normal return.
OrchesComplete ==
  /\ prog = "orches" /\ pc = "loop" /\ idx > Len(pipeline_steps)
  /\ pc' = "done"
  /\ outcome' = "returned"
  /\ exit_code' = 0
  /\ UNCHANGED << prog, idx, force, checkpoint, CHECKPOINT_FILE, histVars >>
  /\ UNCHANGED notOrchVars

\* The process is gone; the next invocation is a new process.
ProcessEnd ==
  /\ pc = "done"
  /\ prev' = [ prog |-> prog, force |-> force, invoked |-> invoked,
               skipped |-> skipped, failed |-> failed,
               clean_start |-> clean_start, outcome |-> outcome ]
  /\ prog' = "none"
  /\ pc' = "idle"
  /\ idx' = 1
  /\ force' = FALSE
  /\ checkpoint' = EmptyDict
  /\ outcome' = "none"
  /\ exit_code' = -1
  /\ invoked' = << >>
  /\ skipped' = {}
  /\ failed' = None
  /\ clean_start' = FALSE
  /\ missing' = {}
  /\ markers' = << >>
  /\ UNCHANGED << CHECKPOINT_FILE, returned, nInv >>
  /\ UNCHANGED notOrchVars

NextOrch ==
  \/ RunnerStart
  \/ RunnerInvoke
  \/ RunnerStageDone
  \/ RunnerStageFail
  \/ RunnerComplete
  \/ OrchesStart
  \/ OrchesSkip
  \/ OrchesInvoke
  \/ SparseSelfSave
  \/ OrchesStageDone
  \/ OrchesStageFail
  \/ OrchesComplete
  \/ ProcessEnd

SpecOrch == Init /\ [][NextOrch]_vars

\* ========================================================== the run API
Called(p, op, out) == [ last_call EXCEPT ![p] = [ op |-> op, out |-> out ] ]

\* Variant: start_run without the active-run test.
HasActiveRun_unchecked(p) == FALSE

\* run_manager.py: if self.active_run is not None
HasActiveRun(p) == active_run[p] # NoRun

\* RunContext.__init__: run_id = run_<utc second>_<6 hex digits of uuid4>.  The
\* draw of a process can repeat an id another process has drawn (a root that
\* process made, or the id of the context it holds); the ids one process draws
\* for its own runs are taken to differ.  Ids not yet taken are interchangeable,
\* so the least of them stands for a new one.
NewRunIds(p) ==
  LET taken  == { r \in RunIds : dirs[r] # "none" \/ \E q \in Procs : active_run[q] = r }
      others == { r \in RunIds : \E q \in Procs \ {p} : r \in created[q] \/ active_run[q] = r }
      free   == RunIds \ taken
  IN  others \cup { r \in free : \A f \in free : r <= f }

\* RunManager.start_run up to the call of initialize: the active-run test, then
\* self.active_run = RunContext(self.paths.runs).
StartRun(p) ==
  /\ at[p] = "idle"
  /\ IF HasActiveRun(p)
       THEN /\ last_call' = Called(p, "start_run", "ActiveRunError")
            /\ UNCHANGED << active_run, at >>
       ELSE /\ \E id \in NewRunIds(p) : active_run' = [ active_run EXCEPT ![p] = id ]
            /\ at' = [ at EXCEPT ![p] = "init_exists" ]
            /\ last_call' = Called(p, "start_run", "pending")
  /\ start_time' = IF HasActiveRun(p) THEN start_time
                   ELSE [ start_time EXCEPT ![p] = NoTime ]
  /\ UNCHANGED << handle, diskVars, created, last_mark, now, finalizing >>
  /\ UNCHANGED notRunVars

\* RunContext.initialize: if self.root.exists(): raise RuntimeError
InitExists(p) ==
  /\ at[p] = "init_exists"
  /\ IF dirs[active_run[p]] # "none"
       THEN /\ at' = [ at EXCEPT ![p] = "idle" ]
            /\ last_call' = Called(p, "start_run", "RunExists")
       ELSE /\ at' = [ at EXCEPT ![p] = "init_mkdir" ]
            /\ UNCHANGED last_call
  /\ UNCHANGED << active_run, handle, diskVars, created, last_mark >>
  /\ UNCHANGED << timeVars, notRunVars >>

\* Variant: mkdir(parents=True, exist_ok=True) accepts a directory that exists.
MkdirRefuses_exist_ok(r) == FALSE

\* Path.mkdir without exist_ok raises FileExistsError when the directory exists.
MkdirRefuses(r) == dirs[r] # "none"

\* self.root.mkdir(parents=True)
InitMkdir(p) ==
  /\ at[p] = "init_mkdir"
  /\ IF MkdirRefuses(active_run[p])
       THEN /\ at' = [ at EXCEPT ![p] = "idle" ]
            /\ last_call' = Called(p, "start_run", "FileExistsError")
            /\ UNCHANGED << dirs, created >>
       ELSE /\ dirs' = [ dirs EXCEPT ![active_run[p]] = "root" ]
            /\ created' = [ created EXCEPT ![p] = @ \cup { active_run[p] } ]
            /\ at' = [ at EXCEPT ![p] = "init_logs" ]
            /\ UNCHANGED last_call
  /\ UNCHANGED << active_run, handle, manifest, checkpoints, last_mark >>
  /\ UNCHANGED << timeVars, notRunVars >>

\* self.logs.mkdir(); self._start_time = time.time()
InitLogs(p) ==
  /\ at[p] = "init_logs"
  /\ dirs' = [ dirs EXCEPT ![active_run[p]] = "logs" ]
  /\ start_time' = [ start_time EXCEPT ![p] = now ]
  /\ at' = [ at EXCEPT ![p] = "init_manifest" ]
  /\ UNCHANGED << active_run, handle, last_call, manifest, checkpoints, created, last_mark >>
  /\ UNCHANGED << now, finalizing, notRunVars >>

\* The manifest is written: run_id, status "running", started_at read from the
\* clock, and the caller's project_root and input_path.
InitManifest(p) ==
  /\ at[p] = "init_manifest"
  /\ manifest' = [ manifest EXCEPT ![active_run[p]] =
                     [ exists |-> TRUE, run_id |-> active_run[p], status |-> "running",
                       started_at |-> now, project_root |-> p, input_path |-> p,
                       finished_at |-> NoTime, duration_sec |-> NoTime ] ]
  /\ at' = [ at EXCEPT ![p] = "init_checkpoints" ]
  /\ UNCHANGED << active_run, handle, last_call, dirs, checkpoints, created, last_mark >>
  /\ UNCHANGED << timeVars, notRunVars >>

\* Variant: the new checkpoint starts from the marks of the run before it.
InitialCheckpoint_carried(r) ==
  IF r > 1 /\ checkpoints[r - 1].exists THEN checkpoints[r - 1].data ELSE EmptyMarks

\* json.dump({}, f): the document a new checkpoints.json holds.
InitialCheckpoint(r) == EmptyMarks

\* The empty checkpoint is written and initialize returns.
InitCheckpoints(p) ==
  /\ at[p] = "init_checkpoints"
  /\ checkpoints' = [ checkpoints EXCEPT ![active_run[p]] =
                        [ exists |-> TRUE, data |-> InitialCheckpoint(active_run[p]) ] ]
  /\ last_mark' = [ last_mark EXCEPT ![active_run[p]] = EmptyMarks ]
  /\ at' = [ at EXCEPT ![p] = "start_symlink" ]
  /\ UNCHANGED << active_run, handle, last_call, dirs, manifest, created >>
  /\ UNCHANGED << timeVars, notRunVars >>

\* start_run after initialize: without output_path, or with the symlink made,
\* it returns self.active_run.
StartRunReturn(p) ==
  /\ at[p] = "start_symlink"
  /\ handle' = [ handle EXCEPT ![p] = active_run[p] ]
  /\ at' = [ at EXCEPT ![p] = "idle" ]
  /\ last_call' = Called(p, "start_run", "ok")
  /\ UNCHANGED << active_run, diskVars, created, last_mark >>
  /\ UNCHANGED << timeVars, notRunVars >>

\* With output_path given, unlinking the old "runs" entry or making the symlink
\* raises: start_run raises after the run has been created.
StartRunSymlinkError(p) ==
  /\ at[p] = "start_symlink"
  /\ at' = [ at EXCEPT ![p] = "idle" ]
  /\ last_call' = Called(p, "start_run", "OSError")
  /\ UNCHANGED << active_run, handle, diskVars, created, last_mark >>
  /\ UNCHANGED << timeVars, notRunVars >>

\* A mkdir or open of initialize fails (runs root not writable, disk full): the
\* OSError leaves initialize and start_run before the step has written anything.
InitOSError(p) ==
  /\ at[p] \in {"init_mkdir", "init_logs", "init_manifest", "init_checkpoints"}
  /\ at' = [ at EXCEPT ![p] = "idle" ]
  /\ last_call' = Called(p, "start_run", "OSError")
  /\ UNCHANGED << active_run, handle, diskVars, created, last_mark >>
  /\ UNCHANGED << timeVars, notRunVars >>

\* Variant: finish_run drops the active run without finalizing it.
FinishRun_drops(p) ==
  /\ at[p] = "idle"
  /\ active_run' = [ active_run EXCEPT ![p] = NoRun ]
  /\ last_call' = Called(p, "finish_run", "ok")
  /\ UNCHANGED << handle, at, diskVars, created, last_mark >>
  /\ UNCHANGED << timeVars, notRunVars >>

\* RunManager.finish_run(success) up to finalize's first clock read: without an
\* active run, nothing; RuntimeError when the manifest is missing; else
\* finished_at = datetime.utcnow().
FinishRun(p) ==
  /\ at[p] = "idle"
  /\ \E success \in BOOLEAN :
       IF active_run[p] = NoRun
         THEN /\ last_call' = Called(p, "finish_run", "nothing")
              /\ UNCHANGED << at, finalizing >>
         ELSE IF ~manifest[active_run[p]].exists
           THEN /\ last_call' = Called(p, "finish_run", "ManifestMissing")
                /\ UNCHANGED << at, finalizing >>
           ELSE /\ finalizing' = [ finalizing EXCEPT ![p] =
                                     [ success |-> success, finished_at |-> now ] ]
                /\ at' = [ at EXCEPT ![p] = "finalize_write" ]
                /\ last_call' = Called(p, "finish_run", "pending")
  /\ UNCHANGED << active_run, handle, diskVars, created, last_mark, now, start_time >>
  /\ UNCHANGED notRunVars

\* Variant: finalize writes a new document holding only the keys it sets.
FinalizedManifest_rewritten(data, success, finished_at, duration) ==
  [ NoManifest EXCEPT !.exists = TRUE,
                      !.status = IF success THEN "success" ELSE "failed",
                      !.finished_at = finished_at,
                      !.duration_sec = duration ]

\* data = json.load(f); status, finished_at and duration_sec are assigned.
FinalizedManifest(data, success, finished_at, duration) ==
  [ data EXCEPT !.status = IF success THEN "success" ELSE "failed",
                !.finished_at = finished_at,
                !.duration_sec = duration ]

\* finalize from its second clock read on: duration = time.time() - _start_time
\* (None without a start time), the manifest is rewritten in place, and
\* finish_run sets self.active_run = None.
FinalizeWrite(p) ==
  /\ at[p] = "finalize_write"
  /\ LET duration == IF start_time[p] # NoTime THEN now - start_time[p] ELSE NoTime
     IN  manifest' = [ manifest EXCEPT ![active_run[p]] =
                         FinalizedManifest(@, finalizing[p].success,
                                           finalizing[p].finished_at, duration) ]
  /\ active_run' = [ active_run EXCEPT ![p] = NoRun ]
  /\ finalizing' = [ finalizing EXCEPT ![p] = NotFinalizing ]
  /\ at' = [ at EXCEPT ![p] = "idle" ]
  /\ last_call' = Called(p, "finish_run", "ok")
  /\ UNCHANGED << handle, dirs, checkpoints, created, last_mark, now, start_time >>
  /\ UNCHANGED notRunVars

\* The system clock advances by one tick.
Tick ==
  /\ now < MaxClock
  /\ now' = now + 1
  /\ UNCHANGED << runProcVars, diskVars, created, last_mark, start_time, finalizing >>
  /\ UNCHANGED notRunVars

\* The RunContext a caller marks and queries: the one start_run returned to it
\* (it keeps the object after finish_run).
Contexts(p) == { handle[p] } \ { NoRun }

\* Variant: the document written back loses the entries that were "failed".
MarkedData_forgets(data, stage, status) ==
  [ n \in MarkNames |->
      IF n = stage THEN status ELSE IF data[n] = "failed" THEN Absent ELSE data[n] ]

\* Variant: the document written back holds only the stage just marked.
MarkedData_only(data, stage, status) == [ EmptyMarks EXCEPT ![stage] = status ]

\* data = json.load(f); data[stage] = status; the whole document is written back.
MarkedData(data, stage, status) == [ data EXCEPT ![stage] = status ]

\* Variant: the parser stops at the end of the first document it finds.
JsonLoadRaises_lenient(r) == FALSE

\* json.load of checkpoints.json raises JSONDecodeError ("Extra data") when
\* bytes follow the document.
JsonLoadRaises(r) == stale[r] > 0

\* RunContext.mark_stage(stage, status)
MarkStage(p) ==
  /\ at[p] = "idle"
  /\ \E r \in Contexts(p), stage \in MarkNames, status \in MarkStatuses :
       IF ~checkpoints[r].exists
         THEN /\ last_call' = Called(p, "mark_stage", "CheckpointsMissing")
              /\ UNCHANGED << checkpoints, last_mark >>
         ELSE IF JsonLoadRaises(r)
         THEN /\ last_call' = Called(p, "mark_stage", "JSONDecodeError")
              /\ UNCHANGED << checkpoints, last_mark >>
         ELSE /\ checkpoints' = [ checkpoints EXCEPT ![r].data =
                                    MarkedData(@, stage, status) ]
              /\ last_mark' = [ last_mark EXCEPT ![r][stage] = status ]
              /\ last_call' = Called(p, "mark_stage", "ok")
  /\ UNCHANGED << active_run, handle, at, dirs, manifest, created >>
  /\ UNCHANGED << timeVars, notRunVars >>

\* Variant: any recorded status counts as done.
stage_done_any_status(r, stage) ==
  checkpoints[r].exists /\ checkpoints[r].data[stage] # Absent

\* RunContext.stage_done(stage): False without a file, else .get(stage) == "done"
stage_done(r, stage) ==
  IF ~checkpoints[r].exists THEN FALSE
  ELSE checkpoints[r].data[stage] = "done"

\* A caller asks stage_done and keeps the answer, or the exception of json.load.
StageDone(p) ==
  /\ at[p] = "idle"
  /\ \E r \in Contexts(p), stage \in MarkNames :
       last_call' = Called(p, "stage_done",
                           IF checkpoints[r].exists /\ JsonLoadRaises(r)
                             THEN "JSONDecodeError"
                             ELSE IF stage_done(r, stage) THEN "True" ELSE "False")
  /\ UNCHANGED << active_run, handle, at, diskVars, created, last_mark >>
  /\ UNCHANGED << timeVars, notRunVars >>

\* One RunManager and its caller, calls in any order.
NextRun ==
  \E p \in Managers :
    \/ StartRun(p)
    \/ InitExists(p)
    \/ InitMkdir(p)
    \/ InitLogs(p)
    \/ InitManifest(p)
    \/ InitCheckpoints(p)
    \/ InitOSError(p)
    \/ StartRunReturn(p)
    \/ StartRunSymlinkError(p)
    \/ FinishRun(p)
    \/ FinalizeWrite(p)
    \/ MarkStage(p)
    \/ StageDone(p)

SpecRun == Init /\ [][NextRun]_vars

\* One RunManager creating and finalizing runs while the clock advances.
NextTime ==
  \/ Tick
  \/ \E p \in Managers :
       \/ StartRun(p)
       \/ InitExists(p)
       \/ InitMkdir(p)
       \/ InitLogs(p)
       \/ InitManifest(p)
       \/ InitCheckpoints(p)
       \/ InitOSError(p)
       \/ StartRunReturn(p)
       \/ StartRunSymlinkError(p)
       \/ FinishRun(p)
       \/ FinalizeWrite(p)

SpecTime == Init /\ [][NextTime]_vars

\* Two processes creating runs under one runs root, their steps interleaved.
NextInit ==
  \E p \in Procs :
    \/ StartRun(p)
    \/ InitExists(p)
    \/ InitMkdir(p)
    \/ InitLogs(p)
    \/ InitManifest(p)
    \/ InitCheckpoints(p)
    \/ InitOSError(p)
    \/ StartRunReturn(p)
    \/ StartRunSymlinkError(p)

SpecInit == Init /\ [][NextInit]_vars

\* ============================================ the checkpoint files, byte level
\* The calls below are the same functions taken file operation by file
\* operation, so that a call can end between two of them.

\* len() of the strings that go into checkpoints.json.
StrLen(str) ==
  CASE str = "init" -> 4 [] str = "input" -> 5 [] str = "done" -> 4 [] str = "failed" -> 6

\* Bytes json.dump(data, f, indent=2) writes: "{}" for the empty dict, else
\* "{\n", the lines `  "stage": "status"` joined by ",\n", and "\n}".
DocSize(data) ==
  LET present == { n \in MarkNames : data[n] # Absent }
      EntrySum[S \in SUBSET present] ==
        IF S = {} THEN 0
        ELSE LET n == CHOOSE x \in S : TRUE
             IN  StrLen(n) + StrLen(data[n]) + 8 + EntrySum[S \ {n}]
  IN  IF present = {} THEN 2
      ELSE 4 + 2 * (Cardinality(present) - 1) + EntrySum[present]

\* mark_stage up to data[stage] = status: the exists test, open "r+", json.load.
MarkOpen(p) ==
  /\ at[p] = "idle"
  /\ \E r \in Contexts(p), stage \in MarkNames, status \in MarkStatuses :
       IF ~checkpoints[r].exists
         THEN /\ last_call' = Called(p, "mark_stage", "CheckpointsMissing")
              /\ UNCHANGED << at, marking >>
         ELSE IF JsonLoadRaises(r)
         THEN /\ last_call' = Called(p, "mark_stage", "JSONDecodeError")
              /\ UNCHANGED << at, marking >>
         ELSE /\ marking' = [ marking EXCEPT ![p] =
                                 MarkedData(checkpoints[r].data, stage, status) ]
              /\ at' = [ at EXCEPT ![p] = "mark_write" ]
              /\ last_call' = Called(p, "mark_stage", "pending")
  /\ UNCHANGED << active_run, handle, diskVars, created, last_mark, timeVars >>
  /\ UNCHANGED << stale, truncated, saving, ckpt_file, ckpt_call, completed >>
  /\ UNCHANGED << orchVars, toolVars, stageVars >>

\* f.seek(0); json.dump(data, f); the flush at the head of f.truncate(): the new
\* document goes over the old bytes from offset 0, and what the old content
\* had beyond its length stays behind it.
MarkWrite(p) ==
  /\ at[p] = "mark_write"
  /\ LET r == handle[p]
         old == DocSize(checkpoints[r].data) + stale[r]
         new == DocSize(marking[p])
     IN  /\ checkpoints' = [ checkpoints EXCEPT ![r].data = marking[p] ]
         /\ stale' = [ stale EXCEPT ![r] = IF old > new THEN old - new ELSE 0 ]
  /\ at' = [ at EXCEPT ![p] = "mark_truncate" ]
  /\ UNCHANGED << active_run, handle, last_call, dirs, manifest, created, last_mark,
                  timeVars >>
  /\ UNCHANGED << marking, truncated, saving, ckpt_file, ckpt_call, completed >>
  /\ UNCHANGED << orchVars, toolVars, stageVars >>

\* f.truncate() cuts the file at the end of the new document; mark_stage returns.
MarkTruncate(p) ==
  /\ at[p] = "mark_truncate"
  /\ stale' = [ stale EXCEPT ![handle[p]] = 0 ]
  /\ last_mark' = [ last_mark EXCEPT ![handle[p]] = checkpoints[handle[p]].data ]
  /\ marking' = [ marking EXCEPT ![p] = EmptyMarks ]
  /\ at' = [ at EXCEPT ![p] = "idle" ]
  /\ last_call' = Called(p, "mark_stage", "ok")
  /\ UNCHANGED << active_run, handle, diskVars, created, timeVars >>
  /\ UNCHANGED << truncated, saving, ckpt_file, ckpt_call, completed >>
  /\ UNCHANGED << orchVars, toolVars, stageVars >>

\* Step names and outputs handed to orches.save_checkpoint.
SaveNames == {"input"}
SaveOutputs == {"done", "output"}

\* json.load of logs/pipeline_checkpoint.json raises on a file without a byte.
CheckpointLoadRaises == CHECKPOINT_FILE.exists /\ truncated

\* A caller runs orches.load_checkpoint().
LoadCheckpoint(p) ==
  /\ at[p] = "idle"
  /\ last_call' = Called(p, "load_checkpoint",
                         IF CheckpointLoadRaises THEN "JSONDecodeError" ELSE "ok")
  /\ UNCHANGED << active_run, handle, at, diskVars, created, last_mark, timeVars >>
  /\ UNCHANGED fileVars
  /\ UNCHANGED << orchVars, toolVars, stageVars >>

\* orches.save_checkpoint up to checkpoint[step_name] = output.
SaveLoad(p) ==
  /\ at[p] = "idle"
  /\ \E step_name \in SaveNames, output \in SaveOutputs :
       IF CheckpointLoadRaises
         THEN /\ last_call' = Called(p, "save_checkpoint", "JSONDecodeError")
              /\ UNCHANGED << at, saving >>
         ELSE /\ saving' = [ saving EXCEPT ![p] = save_checkpoint(step_name, output).data ]
              /\ at' = [ at EXCEPT ![p] = "save_open" ]
              /\ last_call' = Called(p, "save_checkpoint", "pending")
  /\ UNCHANGED << active_run, handle, diskVars, created, last_mark, timeVars >>
  /\ UNCHANGED << stale, marking, truncated, ckpt_file, ckpt_call, completed >>
  /\ UNCHANGED << orchVars, toolVars, stageVars >>

\* open(CHECKPOINT_FILE, "w"): the file is made, or cut to no byte.
SaveOpen(p) ==
  /\ at[p] = "save_open"
  /\ CHECKPOINT_FILE' = [ exists |-> TRUE, data |-> EmptyDict ]
  /\ truncated' = TRUE
  /\ at' = [ at EXCEPT ![p] = "save_write" ]
  /\ UNCHANGED << procVars, histVars, toolVars, stageVars >>
  /\ UNCHANGED << active_run, handle, last_call, diskVars, created, last_mark, timeVars >>
  /\ UNCHANGED << stale, marking, saving, ckpt_file, ckpt_call, completed >>

\* json.dump(checkpoint, f) and the close of the with block.
SaveWrite(p) ==
  /\ at[p] = "save_write"
  /\ CHECKPOINT_FILE' = [ exists |-> TRUE, data |-> saving[p] ]
  /\ truncated' = FALSE
  /\ saving' = [ saving EXCEPT ![p] = EmptyDict ]
  /\ at' = [ at EXCEPT ![p] = "idle" ]
  /\ last_call' = Called(p, "save_checkpoint", "ok")
  /\ UNCHANGED << procVars, histVars, toolVars, stageVars >>
  /\ UNCHANGED << active_run, handle, diskVars, created, last_mark, timeVars >>
  /\ UNCHANGED << stale, marking, ckpt_file, ckpt_call, completed >>

\* ---------------------------------------------------------- checkpoint.py
\* Step names handed to update_checkpoint: the first two declared steps, the
\* last one, and one that PIPELINE_STEPS does not hold.
UpdateSteps == {"input_handling", "coverage_filter", "evaluation", "unknown_step"}

\* update_checkpoint: last_completed_step = step_name, and outputs[step_name]
\* is set when outputs is truthy.
UpdatedCkpt(doc, step_name, outputs) ==
  [ last_completed_step |-> step_name,
    outputs |-> IF outputs # None THEN doc.outputs \cup {step_name} ELSE doc.outputs ]

\* A caller runs checkpoint.load_checkpoint() or update_checkpoint(step_name,
\* outputs); update_checkpoint returns at once for a step name not declared.
CkptCall(p) ==
  /\ at[p] = "idle"
  /\ \/ /\ ckpt_call' = [ ckpt_call EXCEPT ![p] =
                             [ op |-> "ckpt_load", step |-> None, outputs |-> None ] ]
        /\ at' = [ at EXCEPT ![p] = "ckpt_exists" ]
        /\ last_call' = Called(p, "ckpt_load", "pending")
     \/ \E step_name \in UpdateSteps, outputs \in {None, "output"} :
          IF step_name \notin Range(PIPELINE_STEPS)
            THEN /\ last_call' = Called(p, "ckpt_update", "unknown_step")
                 /\ UNCHANGED << at, ckpt_call >>
            ELSE /\ ckpt_call' = [ ckpt_call EXCEPT ![p] =
                                     [ op |-> "ckpt_update", step |-> step_name,
                                       outputs |-> outputs ] ]
                 /\ at' = [ at EXCEPT ![p] = "ckpt_exists" ]
                 /\ last_call' = Called(p, "ckpt_update", "pending")
  /\ UNCHANGED << active_run, handle, diskVars, created, last_mark, timeVars >>
  /\ UNCHANGED << stale, marking, truncated, saving, ckpt_file, completed >>
  /\ UNCHANGED << orchVars, toolVars, stageVars >>

\* load_checkpoint: without a file, initialize_checkpoint -> save_checkpoint
\* opens it "w".
CkptExists(p) ==
  /\ at[p] = "ckpt_exists"
  /\ IF ckpt_file.exists
       THEN /\ at' = [ at EXCEPT ![p] = "ckpt_read" ]
            /\ UNCHANGED ckpt_file
       ELSE /\ ckpt_file' = [ exists |-> TRUE, empty |-> TRUE, data |-> InitialCkpt ]
            /\ at' = [ at EXCEPT ![p] = "ckpt_init_write" ]
  /\ UNCHANGED << active_run, handle, last_call, diskVars, created, last_mark, timeVars >>
  /\ UNCHANGED << stale, marking, truncated, saving, ckpt_call, completed >>
  /\ UNCHANGED << orchVars, toolVars, stageVars >>

\* save_checkpoint of initialize_checkpoint: json.dump and close.
CkptInitWrite(p) ==
  /\ at[p] = "ckpt_init_write"
  /\ ckpt_file' = [ exists |-> TRUE, empty |-> FALSE, data |-> InitialCkpt ]
  /\ at' = [ at EXCEPT ![p] = "ckpt_read" ]
  /\ UNCHANGED << active_run, handle, last_call, diskVars, created, last_mark, timeVars >>
  /\ UNCHANGED << stale, marking, truncated, saving, ckpt_call, completed >>
  /\ UNCHANGED << orchVars, toolVars, stageVars >>

\* resume_from_checkpoint, after load_checkpoint: the step that follows
\* last_completed_step in PIPELINE_STEPS, None after the last one, the first
\* step when nothing or an unknown name is recorded.
resume_from_checkpoint(doc) ==
  LET last_step == doc.last_completed_step IN
    IF last_step = None THEN PIPELINE_STEPS[1]
    ELSE IF last_step \in Range(PIPELINE_STEPS)
    THEN LET index == IndexOf(PIPELINE_STEPS, last_step) IN
           IF index + 1 <= Len(PIPELINE_STEPS) THEN PIPELINE_STEPS[index + 1]
           ELSE None
    ELSE PIPELINE_STEPS[1]

\* A caller runs checkpoint.resume_from_checkpoint(), which loads the file first.
CkptResume(p) ==
  /\ at[p] = "idle"
  /\ ckpt_call' = [ ckpt_call EXCEPT ![p] =
                      [ op |-> "ckpt_resume", step |-> None, outputs |-> None ] ]
  /\ at' = [ at EXCEPT ![p] = "ckpt_exists" ]
  /\ last_call' = Called(p, "ckpt_resume", "pending")
  /\ UNCHANGED << active_run, handle, diskVars, created, last_mark, timeVars >>
  /\ UNCHANGED << stale, marking, truncated, saving, ckpt_file, completed >>
  /\ UNCHANGED << orchVars, toolVars, stageVars >>

\* load_checkpoint: json.load(f).  It raises on a file without a byte; else
\* load_checkpoint returns, resume_from_checkpoint returns its step, and
\* update_checkpoint goes on to save.
CkptRead(p) ==
  /\ at[p] = "ckpt_read"
  /\ IF ckpt_file.empty
       THEN /\ at' = [ at EXCEPT ![p] = "idle" ]
            /\ last_call' = Called(p, ckpt_call[p].op, "JSONDecodeError")
            /\ ckpt_call' = [ ckpt_call EXCEPT ![p] = NoCkptCall ]
            /\ UNCHANGED saving
       ELSE IF ckpt_call[p].op = "ckpt_load"
       THEN /\ at' = [ at EXCEPT ![p] = "idle" ]
            /\ last_call' = Called(p, "ckpt_load", "ok")
            /\ ckpt_call' = [ ckpt_call EXCEPT ![p] = NoCkptCall ]
            /\ UNCHANGED saving
       ELSE IF ckpt_call[p].op = "ckpt_resume"
       THEN /\ at' = [ at EXCEPT ![p] = "idle" ]
            /\ last_call' = Called(p, "ckpt_resume",
                                   resume_from_checkpoint(ckpt_file.data))
            /\ ckpt_call' = [ ckpt_call EXCEPT ![p] = NoCkptCall ]
            /\ UNCHANGED saving
       ELSE /\ at' = [ at EXCEPT ![p] = "ckpt_save_open" ]
            /\ UNCHANGED << last_call, ckpt_call, saving >>
  /\ UNCHANGED << active_run, handle, diskVars, created, last_mark, timeVars >>
  /\ UNCHANGED << stale, marking, truncated, ckpt_file, completed >>
  /\ UNCHANGED << orchVars, toolVars, stageVars >>

\* update_checkpoint -> save_checkpoint: open(CHECKPOINT_FILE, "w").  The
\* document to write is the one loaded, updated.
CkptSaveOpen(p) ==
  /\ at[p] = "ckpt_save_open"
  /\ ckpt_file' = [ exists |-> TRUE, empty |-> TRUE,
                     data |-> UpdatedCkpt(ckpt_file.data, ckpt_call[p].step,
                                          ckpt_call[p].outputs) ]
  /\ at' = [ at EXCEPT ![p] = "ckpt_save_write" ]
  /\ UNCHANGED << active_run, handle, last_call, diskVars, created, last_mark, timeVars >>
  /\ UNCHANGED << stale, marking, truncated, saving, ckpt_call, completed >>
  /\ UNCHANGED << orchVars, toolVars, stageVars >>

\* json.dump(data, f) and close: the file holds the updated document.
CkptSaveWrite(p) ==
  /\ at[p] = "ckpt_save_write"
  /\ ckpt_file' = [ ckpt_file EXCEPT !.empty = FALSE ]
  /\ ckpt_call' = [ ckpt_call EXCEPT ![p] = NoCkptCall ]
  /\ at' = [ at EXCEPT ![p] = "idle" ]
  /\ last_call' = Called(p, "ckpt_update", "ok")
  /\ completed' = completed \cup { ckpt_call[p].step }
  /\ UNCHANGED << active_run, handle, diskVars, created, last_mark, timeVars >>
  /\ UNCHANGED << stale, marking, truncated, saving >>
  /\ UNCHANGED << orchVars, toolVars, stageVars >>

\* Positions between two file operations of a call.
MidWrite ==
  { "mark_write", "mark_truncate", "save_open", "save_write",
    "ckpt_init_write", "ckpt_save_open", "ckpt_save_write" }

\* The call ends where it stands: the process is killed (a later process finds
\* the files as they are), or a KeyboardInterrupt or OSError leaves the
\* function.  Buffered data not yet flushed is lost.
Interrupted(p) ==
  /\ at[p] \in MidWrite
  /\ at' = [ at EXCEPT ![p] = "idle" ]
  /\ last_call' = Called(p, last_call[p].op, "interrupted")
  /\ marking' = [ marking EXCEPT ![p] = EmptyMarks ]
  /\ saving' = [ saving EXCEPT ![p] = EmptyDict ]
  /\ ckpt_call' = [ ckpt_call EXCEPT ![p] = NoCkptCall ]
  /\ ckpt_file' = IF ckpt_file.empty THEN [ ckpt_file EXCEPT !.data = InitialCkpt ]
                  ELSE ckpt_file
  /\ UNCHANGED << active_run, handle, diskVars, created, last_mark, timeVars >>
  /\ UNCHANGED << stale, truncated, completed >>
  /\ UNCHANGED << orchVars, toolVars, stageVars >>

\* One caller of the checkpoint functions: it creates a run, marks and queries
\* it, and uses the checkpoint file helpers of orches.py and checkpoint.py.
NextFile ==
  \E p \in Managers :
    \/ StartRun(p)
    \/ InitExists(p)
    \/ InitMkdir(p)
    \/ InitLogs(p)
    \/ InitManifest(p)
    \/ InitCheckpoints(p)
    \/ StartRunReturn(p)
    \/ MarkOpen(p)
    \/ MarkWrite(p)
    \/ MarkTruncate(p)
    \/ StageDone(p)
    \/ LoadCheckpoint(p)
    \/ SaveLoad(p)
    \/ SaveOpen(p)
    \/ SaveWrite(p)
    \/ CkptCall(p)
    \/ CkptExists(p)
    \/ CkptInitWrite(p)
    \/ CkptRead(p)
    \/ CkptSaveOpen(p)
    \/ CkptSaveWrite(p)
    \/ Interrupted(p)

SpecFile == Init /\ [][NextFile]_vars

\* One caller of checkpoint.py: it loads, updates and asks where to resume.
NextCkpt ==
  \E p \in Managers :
    \/ CkptCall(p)
    \/ CkptResume(p)
    \/ CkptExists(p)
    \/ CkptInitWrite(p)
    \/ CkptRead(p)
    \/ CkptSaveOpen(p)
    \/ CkptSaveWrite(p)
    \/ Interrupted(p)

SpecCkpt == Init /\ [][NextCkpt]_vars

\* ===================================================== orchestrator claims
Pos(name) == IndexOf(Stages(prog), name)

Before(list, k) == { list[i] : i \in 1..(k - 1) }

\* The previous invocation was the given program, started with no checkpoint on
\* disk (always so for runner, which keeps none) and stopped at a raising stage.
PrevFailedFirstRun(p) ==
  /\ prev.prog = p
  /\ prev.failed # None
  /\ p = "orches" => prev.clean_start

C2_FailFast ==
  /\ failed # None =>
        /\ pc = "done"
        /\ invoked # << >>
        /\ invoked[Len(invoked)] = failed
  /\ prev.failed # None =>
        /\ prev.invoked # << >>
        /\ prev.invoked[Len(prev.invoked)] = prev.failed

\* C2 witness: a runner invocation stopped at "input" (2 of 16), then an orches
\* invocation stopped at "coverage" (2 of 7), with later stages never invoked.
C2_Witness ==
  /\ prev.prog = "runner" /\ prev.failed = "input"
  /\ prog = "orches" /\ failed = "coverage" /\ pc = "done"
  /\ Len(invoked) = 2

C4_DeclarationOrder ==
  (prog # "none" /\ outcome # "exit") =>
    LET list == Stages(prog) IN
    /\ \A i, j \in 1..Len(invoked) : i < j => Pos(invoked[i]) < Pos(invoked[j])
    /\ \A i \in 1..Len(invoked) :
          /\ Pos(invoked[i]) <= idx
          /\ Pos(invoked[i]) = idx => (i = Len(invoked) /\ pc # "loop")
    /\ pc \in {"stage", "sparse_saved"} => invoked[Len(invoked)] = list[idx]
    /\ Before(list, idx) \subseteq (Range(invoked) \cup skipped)
    /\ Range(invoked) \cap skipped = {}
    /\ skipped \subseteq Keys(checkpoint)
    /\ (pc = "done" /\ failed = None) =>
          Range(invoked) \cup skipped = Range(list)

\* C4 witness: a resumed orches invocation ran to the end, having skipped the
\* two recorded steps and invoked the other five.
C4_Witness ==
  /\ prog = "orches" /\ pc = "done" /\ failed = None
  /\ skipped = {"input", "coverage"}
  /\ invoked = SubSeq(pipeline_steps, 3, Len(pipeline_steps))

\* C5: after a stage has raised, the orchestrator does not return normally: the
\* failure reaches the caller (exception, non-zero exit status).
C5_FailurePropagates ==
  (pc = "done" /\ failed # None) => (outcome = "raised" /\ exit_code # 0)

\* C6: when an invocation of the orchestrator has ended, the run it was given
\* is finalized: some manifest has status "failed" if a stage raised and
\* "success" if the list was exhausted (and so is no longer "running").
C6_InvocationFinalizesRun ==
  (pc = "done" /\ outcome # "exit") =>
     \E r \in RunIds :
        /\ manifest[r].exists
        /\ manifest[r].status = IF failed # None THEN "failed" ELSE "success"

\* ========================================================== run API claims
Running(r) == manifest[r].exists /\ manifest[r].status = "running"

\* C7: of the runs one RunManager created, at most one has a manifest whose
\* status is still "running".
C7_AtMostOneRunning ==
  \A p \in Managers : Cardinality({ r \in created[p] : Running(r) }) <= 1

\* C7 witness: the manager created two runs, the first finalized and the second
\* still running, and its last call was a start_run that raised.
C7_Witness ==
  /\ created[1] = {1, 2}
  /\ manifest[1].exists /\ manifest[1].status = "success"
  /\ Running(2)
  /\ last_call[1] = [ op |-> "start_run", out |-> "ActiveRunError" ]

\* A step in which process p calls start_run.
IsStartRunStep(p) ==
  /\ at[p] = "idle"
  /\ last_call'[p].op = "start_run"
  /\ (last_call'[p] # last_call[p] \/ at'[p] # "idle")

\* C8: start_run called while a run is active raises the active-run error and
\* changes nothing: active_run, the handle, and every directory, manifest and
\* checkpoint on disk stay as they were.
C8_RejectedStartChangesNothing ==
  [][ \A p \in Managers :
        (IsStartRunStep(p) /\ active_run[p] # NoRun) =>
           /\ last_call'[p].out = "ActiveRunError"
           /\ UNCHANGED << active_run, handle, at, diskVars, created, last_mark >>
    ]_vars

\* C8 witness: run 1 is active and running with a stage marked done, and the
\* last call was a start_run rejected with the active-run error; no second
\* directory exists.
C8_Witness ==
  /\ active_run[1] = 1 /\ handle[1] = 1
  /\ Running(1)
  /\ checkpoints[1].data["init"] = "done"
  /\ last_call[1] = [ op |-> "start_run", out |-> "ActiveRunError" ]
  /\ dirs[2] = "none"

\* Process p is inside initialize, past the mkdir of its root.
PastMkdir(p) ==
  at[p] \in {"init_logs", "init_manifest", "init_checkpoints", "start_symlink"}

\* C9: initialize on a root that exists raises and leaves the disk as it was;
\* of the attempts on one root at most one gets past the mkdir, only that one
\* writes into the directory (the manifest carries its input_path, every change
\* of the root's files is a step of the process that created it), and at most
\* one start_run returns a given root.
C9_CreationAtomic ==
  /\ [](\A p, q \in Procs :
          /\ p # q => created[p] \cap created[q] = {}
          /\ PastMkdir(p) => active_run[p] \in created[p]
          /\ (p # q /\ PastMkdir(p) /\ PastMkdir(q)) => active_run[p] # active_run[q]
          /\ (p # q /\ handle[p] # NoRun) => handle[p] # handle[q]
          /\ handle[p] # NoRun => handle[p] \in created[p])
  /\ [](\A r \in RunIds : manifest[r].exists => r \in created[manifest[r].input_path])
  /\ [][ \A p \in Procs :
           (at[p] = "init_exists" /\ at'[p] # "init_exists"
              /\ dirs[active_run[p]] # "none") =>
                /\ at'[p] = "idle"
                /\ last_call'[p].out = "RunExists"
                /\ UNCHANGED diskVars ]_vars
  /\ [][ \A r \in RunIds :
           (dirs'[r] # dirs[r] \/ manifest'[r] # manifest[r]
              \/ checkpoints'[r] # checkpoints[r]) =>
                \E p \in Procs :
                   /\ active_run[p] = r /\ at[p] # "idle"
                   /\ r \in created'[p] ]_vars

\* C9 witness: both processes went for root 1 at once; process 1 completed the
\* run, process 2 passed the exists test and lost at the mkdir.
C9_Witness ==
  /\ handle[1] = 1 /\ last_call[1] = [ op |-> "start_run", out |-> "ok" ]
  /\ active_run[2] = 1
  /\ last_call[2] = [ op |-> "start_run", out |-> "FileExistsError" ]
  /\ manifest[1].input_path = 1
  /\ checkpoints[1].exists

\* C10: for an initialized run, stage_done(s) is true exactly when the most
\* recent mark of s had status "done": false for a stage never marked or last
\* marked "failed", whatever was marked for other stages.
C10_StageDoneIffLastMarkDone ==
  \A r \in RunIds :
     /\ \A s \in MarkNames : stage_done(r, s) <=> (checkpoints[r].exists /\ last_mark[r][s] = "done")
     /\ ~checkpoints[r].exists => last_mark[r] = EmptyMarks

\* C10 witness: on run 1, "init" was last marked done and "input" last marked
\* failed, and the caller has just been answered True; run 2 was never marked.
C10_Witness ==
  /\ checkpoints[1].exists
  /\ last_mark[1]["init"] = "done" /\ last_mark[1]["input"] = "failed"
  /\ stage_done(1, "init") /\ ~stage_done(1, "input")
  /\ last_call[1] = [ op |-> "stage_done", out |-> "True" ]
  /\ checkpoints[2].exists /\ ~stage_done(2, "init")

\* C11: checkpoint state is monotonic within a run: a stage that stage_done
\* reports done is still reported done after every later step on that run.
C11_DoneStaysDone ==
  [][ \A r \in RunIds, s \in MarkNames : stage_done(r, s) => stage_done(r, s)' ]_vars

\* The checkpoint document of run r was rewritten in this step.
CheckpointRewritten(r) ==
  checkpoints[r].exists /\ checkpoints'[r] # checkpoints[r]

\* C12: a mark_stage(stage, status) changes the entry of the named stage only,
\* to the given status; every other entry keeps its value, and no stage name
\* leaves the checkpoint of a run once it is recorded.
C12_MarkChangesOnlyNamedStage ==
  [][ \A r \in RunIds :
        /\ CheckpointRewritten(r) =>
              /\ checkpoints'[r].exists
              /\ \E p \in Managers, s \in MarkNames :
                    /\ last_call'[p].op = "mark_stage" /\ handle[p] = r
                    /\ checkpoints'[r].data[s] = last_mark'[r][s]
                    /\ checkpoints'[r].data[s] \in MarkStatuses
                    /\ \A n \in MarkNames \ {s} :
                          checkpoints'[r].data[n] = checkpoints[r].data[n]
        /\ checkpoints[r].exists =>
              { n \in MarkNames : checkpoints[r].data[n] # Absent }
                \subseteq { n \in MarkNames : checkpoints'[r].data[n] # Absent }
    ]_vars

\* C12 witness: "input" was marked done and then "init" failed on run 1; the
\* entry of "input" is still there after the second mark.
C12_Witness ==
  /\ handle[1] = 1 /\ active_run[1] = 1
  /\ checkpoints[1].data = [ n \in MarkNames |-> IF n = "init" THEN "failed" ELSE "done" ]
  /\ last_call[1] = [ op |-> "mark_stage", out |-> "ok" ]
  /\ dirs[2] = "none"

\* C16: when initialize has returned (start_run is at the symlink step), the new
\* run has a manifest with status "running" and an empty checkpoint, so
\* stage_done is false for every stage, whatever the runs before it recorded.
C16_NewRunStartsEmpty ==
  \A p \in Procs :
     at[p] = "start_symlink" =>
        /\ manifest[active_run[p]].exists
        /\ manifest[active_run[p]].status = "running"
        /\ checkpoints[active_run[p]] = [ exists |-> TRUE, data |-> EmptyMarks ]
        /\ \A s \in MarkNames : ~stage_done(active_run[p], s)

\* C16 witness: run 1 recorded both stages done and was finalized; initialize
\* of run 2 has just returned.
C16_Witness ==
  /\ at[1] = "start_symlink" /\ active_run[1] = 2
  /\ stage_done(1, "init") /\ stage_done(1, "input")
  /\ manifest[1].status = "success"
  /\ Running(2)

\* C19: once the manifest of a run says it is finalized (status success or
\* failed), no later call changes the checkpoint or the manifest of that run.
C19_ReadOnlyAfterFinalize ==
  [][ \A r \in RunIds :
        (manifest[r].exists /\ manifest[r].status \in {"success", "failed"}) =>
           /\ checkpoints'[r] = checkpoints[r]
           /\ manifest'[r] = manifest[r] ]_vars

\* C15: an invocation started with force (runner: force=True; orches: the user
\* declined to resume) skips nothing and invokes the declared stages from the
\* first one on, and when it has ended the checkpoint file holds the outcomes
\* of that invocation only: exactly the steps it invoked and saw return.
C15_ForceRunsAllAndOverwrites ==
  (prog # "none" /\ force /\ outcome # "exit") =>
     /\ skipped = {}
     /\ \A i \in 1..Len(invoked) : invoked[i] = Stages(prog)[i]
     /\ (pc = "done" /\ failed = None) => Len(invoked) = Len(Stages(prog))
     /\ (prog = "orches" /\ pc = "done") =>
           Keys(load_checkpoint) = Range(invoked) \ {failed}

\* The manifest keys written at creation and never again.
CreationKeys(m) == << m.run_id, m.started_at, m.project_root, m.input_path >>

C18_DurationMatchesTimestamps ==
  \A r \in RunIds :
     (manifest[r].exists /\ manifest[r].status \in {"success", "failed"}) =>
        /\ manifest[r].finished_at >= manifest[r].started_at
        /\ manifest[r].duration_sec # NoTime
        /\ manifest[r].duration_sec - (manifest[r].finished_at - manifest[r].started_at) <= 1
        /\ (manifest[r].finished_at - manifest[r].started_at) - manifest[r].duration_sec <= 1

\* ================================================== checkpoint file claims
\* Process p makes the call op in this step.
CallStep(p, op) ==
  /\ at[p] = "idle"
  /\ last_call'[p].op = op
  /\ (last_call'[p] # last_call[p] \/ at'[p] # "idle")

\* The checkpoints.json of the RunContext p holds has bytes after its document.
HandleFileTorn(p) ==
  handle[p] # NoRun /\ checkpoints[handle[p]].exists /\ stale[handle[p]] > 0

\* C13: on a checkpoint file that does not parse, stage_done and mark_stage,
\* load_checkpoint of orches (called directly or by save_checkpoint) and
\* load_checkpoint of checkpoint.py raise the decode error: no answer True or
\* False is given, no document is loaded, and the file is left as it is.
C13_CorruptCheckpointRaises ==
  [][ \A p \in Managers :
        /\ ((CallStep(p, "stage_done") \/ CallStep(p, "mark_stage")) /\ HandleFileTorn(p)) =>
              /\ last_call'[p].out = "JSONDecodeError"
              /\ at'[p] = "idle"
              /\ UNCHANGED << checkpoints, stale >>
        /\ ((CallStep(p, "load_checkpoint") \/ CallStep(p, "save_checkpoint"))
               /\ CHECKPOINT_FILE.exists /\ truncated) =>
              /\ last_call'[p].out = "JSONDecodeError"
              /\ at'[p] = "idle"
              /\ UNCHANGED << CHECKPOINT_FILE, truncated >>
        /\ (at[p] = "ckpt_read" /\ at'[p] # "ckpt_read" /\ ckpt_file.empty) =>
              /\ last_call'[p].out = "JSONDecodeError"
              /\ at'[p] = "idle"
              /\ UNCHANGED ckpt_file
    ]_vars

\* C13 witness: a mark, a save and an update were each cut short and left the
\* three files unparseable; the caller then asked stage_done and got the
\* decode error.
C13_Witness ==
  /\ HandleFileTorn(1)
  /\ CHECKPOINT_FILE.exists /\ truncated
  /\ ckpt_file.exists /\ ckpt_file.empty
  /\ last_call[1] = [ op |-> "stage_done", out |-> "JSONDecodeError" ]

\* C14: at every moment after run creation, between the file operations of a
\* mark or a save as well, the checkpoint file holds one JSON document and
\* nothing else.
C14_CheckpointAlwaysParses ==
  /\ \A r \in RunIds : checkpoints[r].exists => stale[r] = 0
  /\ CHECKPOINT_FILE.exists => ~truncated

\* ------------------------------------------------ tool_runner.py: ToolRunner
\* Path.is_absolute and Path.exists.
is_absolute(p) == Len(p) > 0 /\ p[1] = "/"

exists(p) == p \in files

\* shutil.which: the files it finds for a command (None is the empty set). A
\* command with a directory part is looked up as it stands, a bare name in the
\* directories of the search path.
which(exe) ==
  IF is_absolute(exe) THEN { exe } \cap files
  ELSE { d \o exe : d \in SearchPath } \cap files

\* _validate_exe raises FileNotFoundError.
validate_exe_absolute_only(exe) == is_absolute(exe) /\ ~exists(exe)

validate_exe(exe) ==
  IF is_absolute(exe) THEN ~exists(exe) ELSE which(exe) = {}

\* _validate_tools raises: some value of a dict entry, or some plain entry, fails.
validate_tools(tools_cfg) ==
  \E k \in DOMAIN tools_cfg :
    LET entry == tools_cfg[k] IN
      IF entry.type = "dict"
      THEN \E n \in DOMAIN entry.items : validate_exe(entry.items[n])
      ELSE validate_exe(entry.value)

\* str.lower on the tool names.
lower(tool) == IF tool = "COLMAP" THEN "colmap" ELSE tool

\* _resolve_executable: what it raises ("no" when it returns) and the executable.
resolve_executable(tools_cfg, tool_arg) ==
  LET tool == lower(tool_arg)
      KeyError == [ raises |-> "KeyError", exe |-> << >> ]
      Found(exe) ==
        [ raises |-> IF is_absolute(exe)
                     THEN IF exists(exe) THEN "no" ELSE "FileNotFoundError"
                     ELSE IF which(exe) = {} THEN "FileNotFoundError" ELSE "no",
          exe |-> exe ]
  IN IF tool \in DOMAIN tools_cfg
     THEN LET entry == tools_cfg[tool] IN
            IF entry.type = "dict"
            THEN IF "executable" \in DOMAIN entry.items
                 THEN Found(entry.items["executable"])
                 ELSE KeyError
            ELSE Found(entry.value)
     ELSE IF /\ "openmvs" \in DOMAIN tools_cfg
             /\ tools_cfg["openmvs"].type = "dict"
             /\ tool \in DOMAIN tools_cfg["openmvs"].items
          THEN Found(tools_cfg["openmvs"].items[tool])
          ELSE KeyError

\* ToolRunner(config, logger): keeps the two sections and validates the tools.
Construct ==
  \E tools \in ToolsConfigs, exec \in ExecConfigs :
    /\ tool_runner' =
         [ state |-> IF validate_tools(tools) THEN "raised" ELSE "constructed",
           exec_cfg |-> exec, tools_cfg |-> tools ]
    /\ fs_changed' = FALSE
    /\ tool_call' = NoToolCall
    /\ UNCHANGED << files, orchVars, runVars, fileVars,
                  stageVars >>

\* Variant: with use_gpu false the variable is left as the caller has it.
ChildEnv_inherits(exec_cfg, environ) == environ

\* The environment run() hands to the child.
ChildEnv(exec_cfg, environ) ==
  IF ~exec_cfg.use_gpu
  THEN [ environ EXCEPT !["CUDA_VISIBLE_DEVICES"] = "" ]
  ELSE IF environ["CUDA_VISIBLE_DEVICES"] = Unset
       THEN [ environ EXCEPT !["CUDA_VISIBLE_DEVICES"] = "" ]
       ELSE environ

\* " ".join(cmd), as the sequence of its pieces.
cmd_str_exe_only(cmd) == << cmd[1] >>

RECURSIVE cmd_str(_)
cmd_str(cmd) ==
  IF Len(cmd) <= 1 THEN cmd
  ELSE << Head(cmd), " " >> \o cmd_str(Tail(cmd))

\* ToolRunner.run(tool, args, cwd, check). When a child is spawned it gets the
\* caller's environ as amended, exits with returncode and has written stdout.
Run(tool, args, check) ==
  /\ tool_runner.state = "constructed"
  /\ LET r == resolve_executable(tool_runner.tools_cfg, tool)
         cmd == << r.exe >> \o args
         call == [ tool |-> tool, check |-> check, out |-> r.raises,
                   spawned |-> FALSE, cmd |-> << >>, environ |-> NoEnv,
                   env |-> NoEnv, proc |-> NoProc, message |-> << >> ]
     IN IF r.raises # "no" THEN tool_call' = call
        ELSE IF tool_runner.exec_cfg.dry_run
        THEN tool_call' = [ call EXCEPT !.out = "None", !.cmd = cmd ]
        ELSE \E environ \in Environs, returncode \in ReturnCodes, stdout \in Outputs :
               LET env == ChildEnv(tool_runner.exec_cfg, environ) IN
                 tool_call' =
                   IF check /\ returncode # 0
                   THEN [ call EXCEPT !.out = "ToolExecutionError",
                                      !.spawned = TRUE, !.cmd = cmd,
                                      !.environ = environ, !.env = env,
                                      !.message = cmd_str(cmd) ]
                   ELSE [ call EXCEPT !.out = "proc",
                                      !.spawned = TRUE, !.cmd = cmd,
                                      !.environ = environ, !.env = env,
                                      !.proc = [ returncode |-> returncode,
                                                 stdout |-> stdout ] ]
  /\ UNCHANGED << files, tool_runner, fs_changed, orchVars, runVars, fileVars,
                  stageVars >>

\* The filesystem changes under the runner: an executable is installed or removed.
Install(f) ==
  /\ f \notin files
  /\ files' = files \cup { f }
  /\ fs_changed' = TRUE
  /\ UNCHANGED << tool_runner, tool_call, orchVars, runVars, fileVars,
                  stageVars >>

Remove(f) ==
  /\ f \in files
  /\ files' = files \ { f }
  /\ fs_changed' = TRUE
  /\ UNCHANGED << tool_runner, tool_call, orchVars, runVars, fileVars,
                  stageVars >>

NextTool ==
  \/ Construct
  \/ \E tool \in ToolArgs, args \in ArgLists, check \in BOOLEAN :
       Run(tool, args, check)
  \/ \E f \in Installable : Install(f)
  \/ \E f \in Installable : Remove(f)

SpecTool == Init /\ [][NextTool]_vars

\* The executables configured under tools, at the top level and nested.
ConfiguredExecutables(tools_cfg) ==
  UNION { IF tools_cfg[k].type = "dict"
          THEN { tools_cfg[k].items[n] : n \in DOMAIN tools_cfg[k].items }
          ELSE { tools_cfg[k].value } : k \in DOMAIN tools_cfg }

\* An existing absolute path, or a name found in a directory of the search path.
Usable(exe) ==
  \/ is_absolute(exe) /\ exists(exe)
  \/ \E d \in SearchPath : exists(d \o exe)

\* The names under which the configuration holds an executable: the top-level
\* entries that are one (a string, or a dict with "executable"), and the
\* entries of a group.
ToolNames(tools_cfg) ==
  UNION { IF tools_cfg[k].type = "dict" /\ "executable" \notin DOMAIN tools_cfg[k].items
          THEN DOMAIN tools_cfg[k].items
          ELSE { k } : k \in DOMAIN tools_cfg }

\* C20: constructing ToolRunner raises exactly when some configured executable
\* (top-level or nested) is neither an existing absolute path nor found on the
\* search path, whatever the execution section and the earlier calls were; and
\* while the filesystem is unchanged, run() resolves every tool name of the
\* configuration a runner was constructed with.
C20_ConstructionValidatesEveryExecutable ==
  (tool_runner.state # "none" /\ ~fs_changed) =>
    /\ tool_runner.state = "raised" <=>
         \E exe \in ConfiguredExecutables(tool_runner.tools_cfg) : ~Usable(exe)
    /\ (tool_call.out # "none" /\ lower(tool_call.tool) \in ToolNames(tool_runner.tools_cfg))
         => tool_call.out \notin { "KeyError", "FileNotFoundError" }

\* a runner constructed while one of the installable executables is missing
\* has resolved a tool of the openmvs group and spawned it
C20_Witness ==
  /\ tool_runner.state = "constructed"
  /\ ~fs_changed
  /\ files # Installable
  /\ tool_call.tool = "interface"
  /\ tool_call.spawned

\* C21: in an invocation during which an external tool is missing, the run is
\* aborted before any stage: no stage function is invoked.
C21_InvalidToolsStopBeforeAnyStage ==
  missing # {} => invoked = << >>

\* run() was called with a tool name of the configuration.
RegisteredCall ==
  /\ tool_runner.state = "constructed"
  /\ tool_call.out # "none"
  /\ lower(tool_call.tool) \in ToolNames(tool_runner.tools_cfg)

\* C22: with dry_run true, run() for a registered tool spawns no process and
\* returns (None) without raising, whatever the arguments and check are.
C22_DryRunNeverSpawnsNorRaises ==
  (RegisteredCall /\ tool_runner.exec_cfg.dry_run) =>
    ~tool_call.spawned /\ tool_call.out = "None"

\* C23: a child that exits non-zero under check=true makes run() raise
\* ToolExecutionError with the whole command line (the executable and every
\* argument, in order) and no result; a child that exits zero, or any child
\* under check=false, makes run() return the child's exit code and output.
C23_ExitCodeTranslation ==
  tool_call.spawned =>
    IF tool_call.check /\ tool_call.out # "proc"
    THEN /\ tool_call.out = "ToolExecutionError"
         /\ tool_call.proc = NoProc
         /\ Len(tool_call.message) = 2 * Len(tool_call.cmd) - 1
         /\ \A i \in 1..Len(tool_call.cmd) :
              tool_call.message[2 * i - 1] = tool_call.cmd[i]
    ELSE /\ tool_call.out = "proc"
         /\ tool_call.proc.returncode \in ReturnCodes
         /\ tool_call.proc.stdout \in Outputs
         /\ tool_call.check => tool_call.proc.returncode = 0
         /\ tool_call.message = << >>

\* a checked colmap call with three arguments whose child exited non-zero
C23_Witness ==
  /\ tool_call.out = "ToolExecutionError"
  /\ Len(tool_call.cmd) = 4
  /\ tool_call.check

\* C24: with use_gpu true the child gets the caller's environment as it is: no
\* variable added, removed or changed, CUDA_VISIBLE_DEVICES included when unset.
C24_GpuEnvironmentInherited ==
  (tool_call.spawned /\ tool_runner.exec_cfg.use_gpu) =>
    tool_call.env = tool_call.environ

\* C25: with use_gpu false every child gets CUDA_VISIBLE_DEVICES = "" whatever
\* the caller holds, and every other variable as the caller holds it.
C25_GpuDisabledByEnvironment ==
  (tool_call.spawned /\ ~tool_runner.exec_cfg.use_gpu) =>
    /\ tool_call.env["CUDA_VISIBLE_DEVICES"] = ""
    /\ \A n \in DOMAIN tool_call.environ \ { "CUDA_VISIBLE_DEVICES" } :
         tool_call.env[n] = tool_call.environ[n]

\* a child spawned with use_gpu false by a caller that has the variable at "0"
C25_Witness ==
  /\ tool_call.spawned
  /\ ~tool_runner.exec_cfg.use_gpu
  /\ tool_call.environ["CUDA_VISIBLE_DEVICES"] = "0"
  /\ tool_call.environ["HOME"] = "/root"

\* ------------------------------------------------ the stage functions
\* ProjectPaths.ensure_all(): every directory of the project is made.
ensure_all(proj) ==
  [ a \in Artifacts |->
      IF a \in Directories /\ proj[a] = "missing" THEN "empty" ELSE proj[a] ]

\* `not d.exists() or not any(d.iterdir())`
MissingOrEmpty(state) == state \in { "missing", "empty" }

StageCall(stage, forced, had_output, out, precondition, spawned, removed, written) ==
  [ stage |-> stage, force |-> forced, had_output |-> had_output, out |-> out,
    precondition |-> precondition, spawned |-> spawned, removed |-> removed,
    written |-> written ]

\* The stages before preprocessing (filter.run) leave images_filtered with or
\* without images in it.
Upstream ==
  /\ \E state \in { "empty", "ok" } :
       project' = [ project EXCEPT !["images_filtered"] = state ]
  /\ project' # project
  /\ UNCHANGED << stage_call, orchVars, runVars, fileVars, toolVars >>

\* pre_proc.run(run_root, project_root, force, logger)
PreProc(forced) ==
  LET p0  == ensure_all(project)
      had == p0["images_processed"] = "ok"
      p1  == [ p0 EXCEPT !["images_processed"] = "empty" ]
      Call(out, pre, removed, written) ==
        StageCall("preprocessing", forced, project["images_processed"] = "ok",
                  out, pre, FALSE, removed, written)
  IN /\ IF p0["images_filtered"] = "missing"
        THEN project' = p0 /\ stage_call' = Call("raised", TRUE, FALSE, FALSE)
        ELSE IF had /\ ~forced
        THEN project' = p0 /\ stage_call' = Call("returned", FALSE, FALSE, FALSE)
        ELSE IF p0["images_filtered"] = "empty"
        THEN project' = p1 /\ stage_call' = Call("raised", TRUE, had, FALSE)
        ELSE \E processed \in BOOLEAN :
               IF processed
               THEN /\ project' = [ p1 EXCEPT !["images_processed"] = "ok" ]
                    /\ stage_call' = Call("returned", FALSE, had, TRUE)
               ELSE /\ project' = p1
                    /\ stage_call' = Call("raised", FALSE, had, FALSE)
     /\ UNCHANGED << orchVars, runVars, fileVars, toolVars >>

\* db_builder.run(project_root, force)
DbBuilder(forced) ==
  LET p0  == ensure_all(project)
      had == p0["database"] = "ok"
      p1  == IF had THEN [ p0 EXCEPT !["database"] = "missing",
                                     !["matches"] = "missing" ]
             ELSE p0
      Call(out, pre, spawned, removed, written) ==
        StageCall("database", forced, had, out, pre, spawned, removed, written)
  IN /\ IF had /\ ~forced
        THEN project' = p0 /\ stage_call' = Call("returned", FALSE, FALSE, FALSE, FALSE)
        ELSE IF MissingOrEmpty(p0["images_processed"])
        THEN project' = p1 /\ stage_call' = Call("raised", TRUE, FALSE, had, FALSE)
        ELSE \E extracted \in BOOLEAN :
               IF extracted
               THEN /\ project' = [ p1 EXCEPT !["database"] = "ok" ]
                    /\ stage_call' = Call("returned", FALSE, TRUE, had, TRUE)
               ELSE /\ project' = p1
                    /\ stage_call' = Call("raised", FALSE, TRUE, had, FALSE)
     /\ UNCHANGED << orchVars, runVars, fileVars, toolVars >>

\* matcher.run(project_root, force); it has no test of its own output.
Matcher(forced) ==
  LET p0  == ensure_all(project)
      had == p0["matches"] = "ok"
      p1  == IF forced THEN [ p0 EXCEPT !["matches"] = "missing" ] ELSE p0
      Call(out, pre, spawned, removed, written) ==
        StageCall("matcher", forced, had, out, pre, spawned, removed, written)
  IN /\ IF p0["database"] = "missing"
        THEN project' = p0 /\ stage_call' = Call("raised", TRUE, FALSE, FALSE, FALSE)
        ELSE \E matched \in BOOLEAN :
               IF matched
               THEN /\ project' = [ p1 EXCEPT !["matches"] = "ok" ]
                    /\ stage_call' = Call("returned", FALSE, TRUE, forced /\ had, TRUE)
               ELSE /\ project' = p1
                    /\ stage_call' = Call("raised", FALSE, TRUE, forced /\ had, FALSE)
     /\ UNCHANGED << orchVars, runVars, fileVars, toolVars >>

\* sparse_reconstruction.run_sparse_reconstruction(project_root, force)
Sparse(forced) ==
  LET had == project["sparse"] = "ok"
      p1  == [ project EXCEPT !["sparse"] = "missing" ]
      Call(out, pre, spawned, removed, written) ==
        StageCall("sparse", forced, had, out, pre, spawned, removed, written)
  IN /\ IF \/ MissingOrEmpty(project["images_processed"])
           \/ project["database"] = "missing"
        THEN project' = project /\ stage_call' = Call("raised", TRUE, FALSE, FALSE, FALSE)
        ELSE IF had /\ ~forced
        THEN project' = project /\ stage_call' = Call("returned", FALSE, FALSE, FALSE, FALSE)
        ELSE \E mapped \in BOOLEAN :
               IF mapped
               THEN /\ project' = [ p1 EXCEPT !["sparse"] = "ok" ]
                    /\ stage_call' = Call("returned", FALSE, TRUE, had, TRUE)
               ELSE /\ project' = p1
                    /\ stage_call' = Call("raised", FALSE, TRUE, had, FALSE)
     /\ UNCHANGED << orchVars, runVars, fileVars, toolVars >>

\* dense_reconstruction.run_dense_reconstruction(project_root, force)
Dense(forced) ==
  LET had == project["dense"] = "ok"
      p1  == [ project EXCEPT !["dense"] = "missing" ]
      Call(out, pre, spawned, removed, written) ==
        StageCall("dense", forced, had, out, pre, spawned, removed, written)
  IN /\ IF project["sparse"] = "missing"
        THEN project' = project /\ stage_call' = Call("raised", TRUE, FALSE, FALSE, FALSE)
        ELSE IF had /\ ~forced
        THEN project' = project /\ stage_call' = Call("returned", FALSE, FALSE, FALSE, FALSE)
        ELSE \E fused \in BOOLEAN :
               IF fused
               THEN /\ project' = [ p1 EXCEPT !["dense"] = "ok" ]
                    /\ stage_call' = Call("returned", FALSE, TRUE, had, TRUE)
               ELSE /\ project' = p1
                    /\ stage_call' = Call("raised", FALSE, TRUE, had, FALSE)
     /\ UNCHANGED << orchVars, runVars, fileVars, toolVars >>

NextStage ==
  \/ Upstream
  \/ \E forced \in BOOLEAN : PreProc(forced)
  \/ \E forced \in BOOLEAN : DbBuilder(forced)
  \/ \E forced \in BOOLEAN : Matcher(forced)
  \/ \E forced \in BOOLEAN : Sparse(forced)
  \/ \E forced \in BOOLEAN : Dense(forced)

SpecStage == Init /\ [][NextStage]_vars

\* C26: a stage called with force=false while its output exists returns and has
\* neither spawned a tool nor deleted or rewritten that output.
C26_UnforcedStageIsNoOp ==
  (stage_call.stage # None /\ ~stage_call.force /\ stage_call.had_output) =>
    /\ ~stage_call.spawned
    /\ ~stage_call.removed
    /\ ~stage_call.written

\* C30: after a stage call that failed a precondition check (missing or empty
\* upstream artifact), with or without force, the stage's old output is in place.
C30_PreconditionFailureKeepsOutput ==
  (stage_call.stage # None /\ stage_call.precondition) => ~stage_call.removed

\* The first step of PIPELINE_STEPS that is not in done, None when all are.
FirstIncomplete(done) ==
  IF Range(PIPELINE_STEPS) \subseteq done THEN None
  ELSE PIPELINE_STEPS[CHOOSE i \in 1..Len(PIPELINE_STEPS) :
                        /\ PIPELINE_STEPS[i] \notin done
                        /\ \A j \in 1..(i - 1) : PIPELINE_STEPS[j] \in done]

\* resume_from_checkpoint has returned a step or None.
ResumeReturned(p) ==
  /\ last_call[p].op = "ckpt_resume"
  /\ last_call[p].out \in Range(PIPELINE_STEPS) \cup { None }

\* C27: after any sequence of update_checkpoint calls resume_from_checkpoint
\* returns the first step of PIPELINE_STEPS not yet completed, and None exactly
\* when every step has been completed.
C27_ResumeAtFirstIncompleteStep ==
  \A p \in Managers :
    ResumeReturned(p) => last_call[p].out = FirstIncomplete(completed)

\* Positions inside RunContext.initialize.
InInitialize == { "init_exists", "init_mkdir", "init_logs", "init_manifest",
                  "init_checkpoints" }

\* C28: when RunContext.initialize raises inside RunManager.start_run (the run
\* directory exists already, or an I/O error), the manager is left with no
\* active run.
C28_RaisingInitializeLeavesNoActiveRun ==
  [][\A p \in Procs :
       (at[p] \in InInitialize /\ at'[p] = "idle") => active_run'[p] = NoRun]_vars

\* The positions of the markers of one kind in what the runner has printed.
Printed(kind) == { i \in 1..Len(markers) : markers[i].kind = kind }

====
